---- MODULE Spec2Model ----
(***************************************************************************)
(* Pilot Traders webhook relay, V1.1.43 (src/unnamed/part_001): the        *)
(* connection registry (clients, webhookClients, legacyClients), the       *)
(* per-connection message handler and the three alert-delivery routes.     *)
(*                                                                         *)
(* Node runs every handler to completion on one thread, so each handler    *)
(* is one atomic action.  A client object is identified by its id (ids are *)
(* never reused), and clientObj keeps the fields of every object ever      *)
(* created, because an index may still reference an object after it left   *)
(* the clients map.                                                        *)
(***************************************************************************)
EXTENDS Integers, FiniteSets, Sequences, TLC

\* ---------------------------------------------------------------- bounds
\* Number of connections accepted during a run.
MaxClients == 2
\* Number of clock steps during a run.
MaxTicks == 2
\* Milliseconds the clock advances in one step.
TickMs == 5000

\* ------------------------------------------------------- program constants
\* ignoreUntil: Date.now() + 5000 at connect time.
CONNECT_IGNORE_MS == 5000
\* client.ignoreUntil = Date.now() + 10000 on clear_session.
CLEAR_IGNORE_MS == 10000

\* JavaScript null / undefined (a value that is no string of the inputs).
Null == "<null>"
\* Routing keys the clients register with and alerts are addressed to.
Keys == {"abc123", "key-2"}
\* data.symbol of a subscribe message.
ClientSymbols == {Null, "", "BTCUSD"}
\* alert.symbol of a submitted alert body.
AlertSymbols == {Null, "", "BTCUSD", "btcusd"}

\* ws.readyState values of the WebSocket library.
OPEN == "OPEN"
CLOSING == "CLOSING"
CLOSED == "CLOSED"

VARIABLES
    clients,          \* keys of the clients Map (id -> client object)
    clientIdCounter,  \* last id handed out
    clientObj,        \* sequence: clientObj[id] = fields of the object with that id
    webhookClients,   \* Map webhookId -> Set of client objects (function, DOMAIN = keys present)
    legacyClients,    \* Set of client objects
    now,              \* Date.now()
    last              \* what the handler that ran last received and produced

vars == <<clients, clientIdCounter, clientObj, webhookClients, legacyClients, now, last>>

registry == <<clients, webhookClients, legacyClients>>

\* JavaScript truthiness of a string-or-null value.
Truthy(v) == v # Null /\ v # ""

\* The result record of a handler: the inputs it got, the connections a
\* delivery loop iterated over (targets) and sent to (sent), the counter it
\* returned (delivered), the message it answered with (reply) and, for
\* GET /status, the body it answered with (listing), and for a keyed or
\* legacy delivery the value Date.now() returned in the iteration of each
\* connection the loop visited (clock).
Result(op, client, key, symbol, targets, sent, delivered, reply) ==
    [op |-> op, client |-> client, key |-> key, symbol |-> symbol,
     targets |-> targets, sent |-> sent, delivered |-> delivered, reply |-> reply,
     listing |-> <<>>, clock |-> <<>>]

NoReply == "none"

Init ==
    /\ clients = {}
    /\ clientIdCounter = 0
    /\ clientObj = <<>>
    /\ webhookClients = <<>>
    /\ legacyClients = {}
    /\ now = 0
    /\ last = Result("init", 0, Null, Null, {}, {}, 0, NoReply)

\* ------------------------------------------------------------ connection
\* The client object built by wss.on('connection').
NewClient(clientId) ==
    [id |-> clientId, symbol |-> Null, webhookId |-> Null, isLegacy |-> FALSE,
     ignoreUntil |-> now + CONNECT_IGNORE_MS, readyState |-> OPEN]

\* An id taken from the number of connections currently in the map.
NextClientIdReused == Cardinality(clients) + 1

\* const clientId = ++clientIdCounter
NextClientId == clientIdCounter + 1

\* A connection handler that also puts the new client into legacyClients.
ConnectIndexing ==
    /\ clientIdCounter < MaxClients
    /\ LET clientId == NextClientId IN
        /\ clientIdCounter' = clientId
        /\ clientObj' = Append(clientObj, NewClient(clientId))
        /\ clients' = clients \cup {clientId}
        /\ legacyClients' = legacyClients \cup {clientId}
        /\ last' = Result("connect", clientId, Null, Null, {}, {}, 0, "connected")
    /\ UNCHANGED <<webhookClients, now>>

\* wss.on('connection')
Connect ==
    /\ clientIdCounter < MaxClients
    /\ LET clientId == NextClientId IN
        /\ clientIdCounter' = clientId
        /\ clientObj' = Append(clientObj, NewClient(clientId))
        /\ clients' = clients \cup {clientId}
        /\ last' = Result("connect", clientId, Null, Null, {}, {}, 0, "connected")
    /\ UNCHANGED <<webhookClients, legacyClients, now>>

\* A 'message' event reaches the handler of connection clientId only while
\* its socket is open.
Receiving(clientId) ==
    /\ clientId \in 1..clientIdCounter
    /\ clientObj[clientId].readyState = OPEN

\* ------------------------------------------------------- index helpers
\* if (!webhookClients.has(k)) webhookClients.set(k, new Set());
\* webhookClients.get(k).add(client);
BucketAdd(map, key, clientId) ==
    IF key \in DOMAIN map
    THEN [map EXCEPT ![key] = @ \cup {clientId}]
    ELSE map @@ (key :> {clientId})

\* webhookClients.get(k).delete(client)
BucketDelete(map, key, clientId) ==
    [map EXCEPT ![key] = @ \ {clientId}]

\* webhookClients.delete(k)
MapDelete(map, key) ==
    [k \in DOMAIN map \ {key} |-> map[k]]

\* ------------------------------------------------------ ws.on('message')
\* data.type === 'register', webhookId branch: the fields and the index.
RegisterKeyObj(obj, clientId, webhookId) ==
    [obj EXCEPT ![clientId].webhookId = webhookId, ![clientId].isLegacy = FALSE]

\* data.type === 'register', legacy branch: the fields.
RegisterLegacyObj(obj, clientId) ==
    [obj EXCEPT ![clientId].isLegacy = TRUE, ![clientId].webhookId = Null]

\* data.type === 'register'
Register(clientId, webhookId, legacy) ==
    /\ Receiving(clientId)
    /\ IF clientId \in clients
       THEN IF Truthy(webhookId)
            THEN /\ clientObj' = RegisterKeyObj(clientObj, clientId, webhookId)
                 /\ webhookClients' = BucketAdd(webhookClients, webhookId, clientId)
                 /\ UNCHANGED legacyClients
                 /\ last' = Result("register", clientId, webhookId, Null, {}, {}, 0,
                                   "registered:user-specific")
            ELSE IF legacy = TRUE
                 THEN /\ clientObj' = RegisterLegacyObj(clientObj, clientId)
                      /\ legacyClients' = legacyClients \cup {clientId}
                      /\ UNCHANGED webhookClients
                      /\ last' = Result("register", clientId, webhookId, Null, {}, {}, 0,
                                        "registered:legacy")
                 ELSE /\ UNCHANGED <<clientObj, webhookClients, legacyClients>>
                      /\ last' = Result("register", clientId, webhookId, Null, {}, {}, 0, NoReply)
       ELSE /\ UNCHANGED <<clientObj, webhookClients, legacyClients>>
            /\ last' = Result("register", clientId, webhookId, Null, {}, {}, 0, NoReply)
    /\ UNCHANGED <<clients, clientIdCounter, now>>

\* data.type === 'subscribe'
Subscribe(clientId, symbol) ==
    /\ Receiving(clientId)
    /\ IF clientId \in clients
       THEN clientObj' = [clientObj EXCEPT ![clientId].symbol = symbol]
       ELSE UNCHANGED clientObj
    /\ last' = Result("subscribe", clientId, Null, symbol, {}, {}, 0, NoReply)
    /\ UNCHANGED <<clients, clientIdCounter, webhookClients, legacyClients, now>>

\* data.type === 'ping'
Ping(clientId) ==
    /\ Receiving(clientId)
    /\ last' = Result("ping", clientId, Null, Null, {}, {}, 0, "pong")
    /\ UNCHANGED <<clients, clientIdCounter, clientObj, webhookClients, legacyClients, now>>

\* A clear_session window shorter than the connect window.
ClearSessionDeadlineShort(t) == t + 1000

\* The deadline clear_session stores: Date.now() + 10000.
ClearSessionDeadline(t) == t + CLEAR_IGNORE_MS

\* data.type === 'clear_session'
ClearSession(clientId) ==
    /\ Receiving(clientId)
    /\ IF clientId \in clients
       THEN /\ clientObj' = [clientObj EXCEPT ![clientId].ignoreUntil = ClearSessionDeadline(now)]
            /\ last' = Result("clear_session", clientId, Null, Null, {}, {}, 0, "session_cleared")
       ELSE /\ UNCHANGED clientObj
            /\ last' = Result("clear_session", clientId, Null, Null, {}, {}, 0, NoReply)
    /\ UNCHANGED <<clients, clientIdCounter, webhookClients, legacyClients, now>>

\* A handler answering a message it does not understand with an error and
\* closing the socket.
OtherMessageRejecting(clientId) ==
    /\ Receiving(clientId)
    /\ clientObj' = [clientObj EXCEPT ![clientId].readyState = CLOSING]
    /\ last' = Result("other", clientId, Null, Null, {}, {}, 0, "error")
    /\ UNCHANGED <<clients, clientIdCounter, webhookClients, legacyClients, now>>

\* Any other data.type, or a message JSON.parse throws on (caught and ignored).
OtherMessage(clientId) ==
    /\ Receiving(clientId)
    /\ last' = Result("other", clientId, Null, Null, {}, {}, 0, NoReply)
    /\ UNCHANGED <<clients, clientIdCounter, clientObj, webhookClients, legacyClients, now>>

\* -------------------------------------------- ws.on('close') / ws.on('error')
\* A close handler that drops the whole bucket of the client's webhookId.
CloseBucketsDropAll(map, clientId) ==
    LET key == clientObj[clientId].webhookId IN
    IF Truthy(key) /\ key \in DOMAIN map THEN MapDelete(map, key) ELSE map

\* The index update of the close handler: delete from the bucket of the
\* client's current webhookId and prune the bucket when it became empty.
CloseBuckets(map, clientId) ==
    LET key == clientObj[clientId].webhookId IN
    IF Truthy(key) /\ key \in DOMAIN map
    THEN LET m == BucketDelete(map, key, clientId) IN
         IF Cardinality(m[key]) = 0 THEN MapDelete(m, key) ELSE m
    ELSE map

\* The index update of the error handler: the same delete, without the prune.
ErrorBuckets(map, clientId) ==
    LET key == clientObj[clientId].webhookId IN
    IF Truthy(key) /\ key \in DOMAIN map
    THEN BucketDelete(map, key, clientId)
    ELSE map

\* The socket starts closing (a close frame arrived): readyState leaves OPEN
\* and no handler of the relay runs yet.
TransportClosing(clientId) ==
    /\ clientId \in 1..clientIdCounter
    /\ clientObj[clientId].readyState = OPEN
    /\ clientObj' = [clientObj EXCEPT ![clientId].readyState = CLOSING]
    /\ last' = Result("closing", clientId, Null, Null, {}, {}, 0, NoReply)
    /\ UNCHANGED <<clients, clientIdCounter, webhookClients, legacyClients, now>>

\* A close handler working on the client object it captured at connect time,
\* without looking the client up in the clients map first.
CloseUnguarded(clientId) ==
    /\ clientId \in 1..clientIdCounter
    /\ clientObj[clientId].readyState # CLOSED
    /\ clientObj' = [clientObj EXCEPT ![clientId].readyState = CLOSED]
    /\ webhookClients' = CloseBuckets(webhookClients, clientId)
    /\ legacyClients' = legacyClients \ {clientId}
    /\ clients' = clients \ {clientId}
    /\ last' = Result("close", clientId, Null, Null, {}, {}, 0, NoReply)
    /\ UNCHANGED <<clientIdCounter, now>>

\* ws.on('close'): fired once per socket, when it reaches CLOSED.
Close(clientId) ==
    /\ clientId \in 1..clientIdCounter
    /\ clientObj[clientId].readyState # CLOSED
    /\ clientObj' = [clientObj EXCEPT ![clientId].readyState = CLOSED]
    /\ IF clientId \in clients
       THEN /\ webhookClients' = CloseBuckets(webhookClients, clientId)
            /\ legacyClients' = legacyClients \ {clientId}
       ELSE UNCHANGED <<webhookClients, legacyClients>>
    /\ clients' = clients \ {clientId}
    /\ last' = Result("close", clientId, Null, Null, {}, {}, 0, NoReply)
    /\ UNCHANGED <<clientIdCounter, now>>

\* ws.on('error'): the library moves the socket to CLOSING, emits 'error'
\* and emits 'close' later.
Error(clientId) ==
    /\ clientId \in 1..clientIdCounter
    /\ clientObj[clientId].readyState = OPEN
    /\ clientObj' = [clientObj EXCEPT ![clientId].readyState = CLOSING]
    /\ IF clientId \in clients
       THEN /\ webhookClients' = ErrorBuckets(webhookClients, clientId)
            /\ legacyClients' = legacyClients \ {clientId}
       ELSE UNCHANGED <<webhookClients, legacyClients>>
    /\ clients' = clients \ {clientId}
    /\ last' = Result("error", clientId, Null, Null, {}, {}, 0, NoReply)
    /\ UNCHANGED <<clientIdCounter, now>>

\* ---------------------------------------------------------------- delivery
\* The window compared with <= : the deadline itself still inside it.
InIgnoreWindowInclusive(clientId, t) ==
    /\ clientObj[clientId].ignoreUntil # 0
    /\ t <= clientObj[clientId].ignoreUntil

\* client.ignoreUntil && Date.now() < client.ignoreUntil, with t the value
\* this call of Date.now() returns.
InIgnoreWindow(clientId, t) ==
    /\ clientObj[clientId].ignoreUntil # 0
    /\ t < clientObj[clientId].ignoreUntil

\* Upper-casing of the symbols of the inputs.
UpperCase(symbol) == IF symbol = "btcusd" THEN "BTCUSD" ELSE symbol

\* The symbols compared without regard to case.
SymbolMismatchNoCase(clientSymbol, alertSymbol) ==
    /\ Truthy(clientSymbol)
    /\ Truthy(alertSymbol)
    /\ UpperCase(clientSymbol) # UpperCase(alertSymbol)

\* client.symbol && alert.symbol && client.symbol !== alert.symbol
SymbolMismatch(clientSymbol, alertSymbol) ==
    /\ Truthy(clientSymbol)
    /\ Truthy(alertSymbol)
    /\ clientSymbol # alertSymbol

\* The loop without the readyState check.
IsOpenUnchecked(clientId) == TRUE

\* client.ws.readyState === WebSocket.OPEN
IsOpen(clientId) == clientObj[clientId].readyState = OPEN

\* What one pass of a delivery loop does to (sent, delivered).
Deliver(acc, clientId) ==
    [sent |-> acc.sent \cup {clientId}, delivered |-> acc.delivered + 1]

NoneDelivered == [sent |-> {}, delivered |-> 0]

\* The keyed loop with the symbol filter of the legacy loop applied.
KeyedVisitFiltered(acc, clientId, alertSymbol, t) ==
    IF InIgnoreWindow(clientId, t) THEN acc
    ELSE IF SymbolMismatch(clientObj[clientId].symbol, alertSymbol) THEN acc
    ELSE IF IsOpen(clientId) THEN Deliver(acc, clientId)
    ELSE acc

\* The keyed loop with delivered++ outside the readyState check.
KeyedVisitCountingAll(acc, clientId, alertSymbol, t) ==
    IF InIgnoreWindow(clientId, t) THEN acc
    ELSE IF IsOpen(clientId) THEN Deliver(acc, clientId)
    ELSE [acc EXCEPT !.delivered = @ + 1]

\* One iteration of targetClients.forEach in POST /webhook/:webhookId/alert;
\* t is the value its call of Date.now() returns.
KeyedVisit(acc, clientId, alertSymbol, t) ==
    IF InIgnoreWindow(clientId, t) THEN acc
    ELSE IF IsOpen(clientId) THEN Deliver(acc, clientId)
    ELSE acc

\* targetClients.forEach: every iteration reads Date.now() anew; clock[c] is
\* the value the iteration of c gets.
RECURSIVE KeyedLoop(_, _, _, _)
KeyedLoop(todo, alertSymbol, clock, acc) ==
    IF todo = {} THEN acc
    ELSE LET clientId == CHOOSE c \in todo : TRUE IN
         KeyedLoop(todo \ {clientId}, alertSymbol, clock,
                   KeyedVisit(acc, clientId, alertSymbol, clock[clientId]))

\* One iteration of legacyClients.forEach in POST /alert; t is the value its
\* call of Date.now() returns.
LegacyVisit(acc, clientId, alertSymbol, t) ==
    IF InIgnoreWindow(clientId, t) THEN acc
    ELSE IF SymbolMismatch(clientObj[clientId].symbol, alertSymbol) THEN acc
    ELSE IF IsOpen(clientId) THEN Deliver(acc, clientId)
    ELSE acc

\* legacyClients.forEach: every iteration reads Date.now() anew; clock[c] is
\* the value the iteration of c gets.
RECURSIVE LegacyLoop(_, _, _, _)
LegacyLoop(todo, alertSymbol, clock, acc) ==
    IF todo = {} THEN acc
    ELSE LET clientId == CHOOSE c \in todo : TRUE IN
         LegacyLoop(todo \ {clientId}, alertSymbol, clock,
                    LegacyVisit(acc, clientId, alertSymbol, clock[clientId]))

\* One iteration of clients.forEach in GET /test.
TestVisit(acc, clientId) ==
    IF IsOpen(clientId) THEN Deliver(acc, clientId) ELSE acc

RECURSIVE TestLoop(_, _)
TestLoop(todo, acc) ==
    IF todo = {} THEN acc
    ELSE LET clientId == CHOOSE c \in todo : TRUE IN
         TestLoop(todo \ {clientId}, TestVisit(acc, clientId))

\* The instants of the clock.
Times == {i * TickMs : i \in 0..MaxTicks}

\* The values Date.now() can return to the iterations of one loop over todo:
\* the clock may move forward between two iterations, and the order of the
\* iterations (the insertion order of the Set, which the index sets of the
\* model do not keep) decides which connection sees which instant, so every
\* assignment of instants from now on.
Clocks(todo) == [todo -> {t \in Times : t >= now}]

\* The clock after the loop: the latest instant an iteration read.
ClockAfter(clock) ==
    LET read == {clock[c] : c \in DOMAIN clock} \cup {now} IN
    CHOOSE t \in read : \A u \in read : u <= t

\* The lookup of the broadcast relay: every connected client.
TargetClientsAll(webhookId) == clients

\* webhookClients.get(webhookId), with undefined as the empty set.
TargetClients(webhookId) ==
    IF webhookId \in DOMAIN webhookClients THEN webhookClients[webhookId] ELSE {}

\* A keyed route that delivers once for each index a connection is
\* registered in: through the bucket of the key and through legacyClients.
KeyedAlertPerRegistration(webhookId, alertSymbol) ==
    /\ LET targetClients == TargetClients(webhookId) IN
       \E clock \in Clocks(targetClients \cup legacyClients) :
           LET r == KeyedLoop(targetClients, alertSymbol, clock, NoneDelivered)
               q == LegacyLoop(legacyClients, alertSymbol, clock, NoneDelivered) IN
           /\ last' = [Result("keyed", 0, webhookId, alertSymbol,
                              targetClients \cup legacyClients, r.sent \cup q.sent,
                              r.delivered + q.delivered, "success:delivered")
                         EXCEPT !.clock = clock]
           /\ now' = ClockAfter(clock)
    /\ UNCHANGED <<clients, clientIdCounter, clientObj, webhookClients, legacyClients>>

\* The keyed route dropping from clients the targets whose socket is not open.
KeyedAlertPruning(webhookId, alertSymbol) ==
    /\ LET targetClients == TargetClients(webhookId) IN
       \E clock \in Clocks(targetClients) :
           LET r == KeyedLoop(targetClients, alertSymbol, clock, NoneDelivered) IN
           /\ last' = [Result("keyed", 0, webhookId, alertSymbol, targetClients, r.sent,
                              r.delivered, "success:delivered")
                         EXCEPT !.clock = clock]
           /\ now' = ClockAfter(clock)
           /\ clients' = clients \ {c \in targetClients : ~IsOpen(c)}
    /\ UNCHANGED <<clientIdCounter, clientObj, webhookClients, legacyClients>>

\* app.post('/webhook/:webhookId/alert')
KeyedAlert(webhookId, alertSymbol) ==
    /\ LET targetClients == TargetClients(webhookId) IN
       IF webhookId \notin DOMAIN webhookClients \/ Cardinality(targetClients) = 0
       THEN /\ last' = Result("keyed", 0, webhookId, alertSymbol, {}, {}, 0,
                              "success:no clients connected")
            /\ now' = now
       ELSE \E clock \in Clocks(targetClients) :
                LET r == KeyedLoop(targetClients, alertSymbol, clock, NoneDelivered) IN
                /\ last' = [Result("keyed", 0, webhookId, alertSymbol, targetClients,
                                   r.sent, r.delivered, "success:delivered")
                              EXCEPT !.clock = clock]
                /\ now' = ClockAfter(clock)
    /\ UNCHANGED <<clients, clientIdCounter, clientObj, webhookClients, legacyClients>>

\* app.post('/alert')
LegacyAlert(alertSymbol) ==
    /\ \E clock \in Clocks(legacyClients) :
           LET r == LegacyLoop(legacyClients, alertSymbol, clock, NoneDelivered) IN
           /\ last' = [Result("legacy", 0, Null, alertSymbol, legacyClients, r.sent,
                              r.delivered, "success:broadcast")
                         EXCEPT !.clock = clock]
           /\ now' = ClockAfter(clock)
    /\ UNCHANGED <<clients, clientIdCounter, clientObj, webhookClients, legacyClients>>

\* The symbol of the fixed test alert.
TestSymbol == "TEST"

\* app.get('/test')
TestAlert ==
    /\ LET r == TestLoop(clients, NoneDelivered) IN
       last' = Result("test", 0, Null, TestSymbol, clients, r.sent, r.delivered,
                      "success:test")
    /\ UNCHANGED <<clients, clientIdCounter, clientObj, webhookClients, legacyClients, now>>

\* ------------------------------------------------------------------ clock
\* Date.now() moves forward between two handlers.
Tick ==
    /\ now < MaxTicks * TickMs
    /\ now' = now + TickMs
    /\ last' = Result("tick", 0, Null, Null, {}, {}, 0, NoReply)
    /\ UNCHANGED <<clients, clientIdCounter, clientObj, webhookClients, legacyClients>>

Ids == 1..MaxClients

\* Connections come and go, sockets close and fail, the clock advances.
Lifecycle ==
    \/ Connect
    \/ \E c \in Ids : TransportClosing(c)
    \/ \E c \in Ids : Close(c)
    \/ \E c \in Ids : Error(c)
    \/ Tick

\* The messages that bind a connection or set its ignore window, with the
\* register keys drawn from keys and the falsy values.
Control(keys) ==
    \/ \E c \in Ids, k \in keys \cup {Null, ""}, l \in BOOLEAN : Register(c, k, l)
    \/ \E c \in Ids : ClearSession(c)

\* Registry and routing: both keys, the legacy index, the ignore window and
\* the three delivery routes; no connection subscribes to a symbol and the
\* alerts carry none.
Next ==
    \/ Lifecycle
    \/ Control(Keys)
    \/ \E c \in Ids : Ping(c)
    \/ \E c \in Ids : OtherMessage(c)
    \/ \E k \in Keys : KeyedAlert(k, Null)
    \/ LegacyAlert(Null)
    \/ TestAlert

Spec == Init /\ [][Next]_vars

\* The one key of the symbol-filter specification.
FilterKey == "abc123"

\* alert.symbol of the keyed alerts of the symbol-filter specification.
KeyedAlertSymbols == {Null, "btcusd"}

\* Symbol filter: connections subscribe to symbols and the alerts carry
\* symbols; one routing key, the legacy index, the ignore window, sockets
\* that close, and the keyed and the legacy route.
NextSymbols ==
    \/ Connect
    \/ \E c \in Ids : TransportClosing(c)
    \/ \E c \in Ids : Close(c)
    \/ Tick
    \/ Control({FilterKey})
    \/ \E c \in Ids, s \in ClientSymbols : Subscribe(c, s)
    \/ \E s \in KeyedAlertSymbols : KeyedAlert(FilterKey, s)
    \/ \E s \in AlertSymbols : LegacyAlert(s)

SpecSymbols == Init /\ [][NextSymbols]_vars

\* ------------------------------------------------------------- GET /status
\* The number of characters of a webhookId that /status shows.
STATUS_PREFIX_LEN == 8

\* client.webhookId ? client.webhookId.substring(0, 8) + '...' : null
StatusWebhookId(webhookId) ==
    IF Truthy(webhookId)
    THEN SubSeq(webhookId, 1, IF Len(webhookId) < STATUS_PREFIX_LEN
                              THEN Len(webhookId) ELSE STATUS_PREFIX_LEN) \o "..."
    ELSE Null

\* The entry clientList.push builds for one client (connectedAt, a constant
\* of the connection, left out).
StatusEntry(clientId) ==
    [id |-> clientId,
     symbol |-> clientObj[clientId].symbol,
     webhookId |-> StatusWebhookId(clientObj[clientId].webhookId),
     isLegacy |-> clientObj[clientId].isLegacy]

\* The body res.json answers with: the three sizes and the client list.
StatusBody ==
    [connectedClients |-> Cardinality(clients),
     webhookIds |-> Cardinality(DOMAIN webhookClients),
     legacyClients |-> Cardinality(legacyClients),
     clients |-> [c \in clients |-> StatusEntry(c)]]

\* app.get('/status')
Status ==
    /\ last' = [Result("status", 0, Null, Null, {}, {}, 0, "running")
                  EXCEPT !.listing = StatusBody]
    /\ UNCHANGED <<clients, clientIdCounter, clientObj, webhookClients, legacyClients, now>>

\* Routing keys of the registry specification: one shorter and one longer
\* than the prefix /status shows.
RegistryKeys == {"abc123", "a1b2c3d4e5f6"}

\* Symbols of the subscribe messages of the registry specification.
RegistrySymbols == {Null, "BTCUSD"}

\* Registry and its frame: connections come and go, every kind of message
\* arrives, and /status lists the clients; no alert is delivered and the
\* clock stands still.
NextRegistry ==
    \/ Connect
    \/ \E c \in Ids : TransportClosing(c)
    \/ \E c \in Ids : Close(c)
    \/ \E c \in Ids : Error(c)
    \/ Control(RegistryKeys)
    \/ \E c \in Ids, s \in RegistrySymbols : Subscribe(c, s)
    \/ \E c \in Ids : Ping(c)
    \/ \E c \in Ids : OtherMessage(c)
    \/ Status

SpecRegistry == Init /\ [][NextRegistry]_vars

\* ------------------------------------------------------- sends that throw
\* client.ws.send(message) is called outside any try/catch: when it throws,
\* the exception leaves the forEach callback and the route handler, the
\* iterations that remain do not run, and Express answers 500.
SendThrew == "error:500"

\* The keyed loop calls client.ws.send for clientId.
KeyedSendsTo(clientId, alertSymbol, t) ==
    KeyedVisit(NoneDelivered, clientId, alertSymbol, t) # NoneDelivered

\* The legacy loop calls client.ws.send for clientId.
LegacySendsTo(clientId, alertSymbol, t) ==
    LegacyVisit(NoneDelivered, clientId, alertSymbol, t) # NoneDelivered

\* app.post('/webhook/:webhookId/alert') when the send to failing throws.
\* before are the connections forEach visited earlier: a Set iterates in
\* insertion order, which the index sets of the model do not keep, so any
\* subset of the other targets.  The iterations that ran read the clock, the
\* one of failing last.
KeyedAlertThrowing(webhookId, alertSymbol, failing, before) ==
    /\ LET targetClients == TargetClients(webhookId) IN
        /\ failing \in targetClients
        /\ before \subseteq targetClients \ {failing}
        /\ \E clock \in Clocks(before \cup {failing}) :
              /\ \A b \in before : clock[b] <= clock[failing]
              /\ KeyedSendsTo(failing, alertSymbol, clock[failing])
              /\ LET r == KeyedLoop(before, alertSymbol, clock, NoneDelivered) IN
                 last' = [Result("keyed", failing, webhookId, alertSymbol, targetClients,
                                 r.sent, r.delivered, SendThrew)
                            EXCEPT !.clock = clock]
              /\ now' = ClockAfter(clock)
    /\ UNCHANGED <<clients, clientIdCounter, clientObj, webhookClients, legacyClients>>

\* app.post('/alert') when the send to failing throws.
LegacyAlertThrowing(alertSymbol, failing, before) ==
    /\ failing \in legacyClients
    /\ before \subseteq legacyClients \ {failing}
    /\ \E clock \in Clocks(before \cup {failing}) :
          /\ \A b \in before : clock[b] <= clock[failing]
          /\ LegacySendsTo(failing, alertSymbol, clock[failing])
          /\ LET r == LegacyLoop(before, alertSymbol, clock, NoneDelivered) IN
             last' = [Result("legacy", failing, Null, alertSymbol, legacyClients, r.sent,
                             r.delivered, SendThrew)
                        EXCEPT !.clock = clock]
          /\ now' = ClockAfter(clock)
    /\ UNCHANGED <<clients, clientIdCounter, clientObj, webhookClients, legacyClients>>

\* app.get('/test') when the send to failing throws.
TestAlertThrowing(failing, before) ==
    /\ failing \in clients
    /\ before \subseteq clients \ {failing}
    /\ TestVisit(NoneDelivered, failing) # NoneDelivered
    /\ LET r == TestLoop(before, NoneDelivered) IN
       last' = Result("test", failing, Null, TestSymbol, clients, r.sent, r.delivered,
                      SendThrew)
    /\ UNCHANGED <<clients, clientIdCounter, clientObj, webhookClients, legacyClients, now>>

\* Deliveries and their sends: one routing key, the legacy index, the ignore
\* window, sockets that close and fail, and the three delivery routes, each
\* with sends that succeed and with a send that throws.
NextSend ==
    \/ Lifecycle
    \/ Control({FilterKey})
    \/ KeyedAlert(FilterKey, Null)
    \/ LegacyAlert(Null)
    \/ TestAlert
    \/ \E f \in Ids, b \in SUBSET Ids : KeyedAlertThrowing(FilterKey, Null, f, b)
    \/ \E f \in Ids, b \in SUBSET Ids : LegacyAlertThrowing(Null, f, b)
    \/ \E f \in Ids, b \in SUBSET Ids : TestAlertThrowing(f, b)

SpecSend == Init /\ [][NextSend]_vars

\* ======================================================================
\* Properties
\* ======================================================================
\* The connections of the clients map whose current webhookId is key.
BoundTo(key) == {c \in clients : clientObj[c].webhookId = key}

\* The index buckets that hold connection c.
BucketsOf(c) == {k \in DOMAIN webhookClients : c \in webhookClients[k]}

\* Every client object ever created.
Created == 1..clientIdCounter

\* C1: every connection held in a webhookClients bucket or in legacyClients
\* is also in the clients map (so a connection removed from clients is gone
\* from every index in the same step).
C1_IndexedAreInClients ==
    /\ \A k \in DOMAIN webhookClients : webhookClients[k] \subseteq clients
    /\ legacyClients \subseteq clients

\* C2: a connection is in at most one webhookClients bucket, and in at most
\* one of {some bucket, legacyClients}.
C2_AtMostOneIndex ==
    \A c \in Created :
        Cardinality(BucketsOf(c)) + (IF c \in legacyClients THEN 1 ELSE 0) <= 1

\* C3: when a connection bound to key K1 registers with another key K2, it
\* is not in the K1 bucket afterwards, and the K1 bucket is gone when it had
\* no other member.
C3_RebindLeavesOldBucket ==
    [][\A c \in Ids, k1 \in Keys, k2 \in Keys :
        ( /\ last'.op = "register" /\ last'.client = c /\ last'.key = k2
          /\ c \in clients
          /\ clientObj[c].webhookId = k1
          /\ k1 # k2 )
        => /\ k1 \in DOMAIN webhookClients' => c \notin webhookClients'[k1]
           /\ (k1 \in DOMAIN webhookClients /\ webhookClients[k1] \subseteq {c})
                => k1 \notin DOMAIN webhookClients']_vars

\* C4: a keyed alert to K iterates over exactly the live connections whose
\* current webhookId is K and is sent to none other; a legacy alert is sent
\* to no connection that has a current webhookId.
C4_OnlyAlertsOfOwnKey ==
    /\ last.op = "keyed" =>
        /\ last.targets = BoundTo(last.key)
        /\ last.sent \subseteq BoundTo(last.key)
    /\ last.op = "legacy" =>
        \A c \in last.sent : ~Truthy(clientObj[c].webhookId)

\* The alert-delivery operations of the server.
DeliveryOps == {"keyed", "legacy", "test"}

\* The instant the handler that ran last read from the clock for connection
\* c: the value of Date.now() in c's iteration of a keyed or legacy loop, and
\* the time of the handler where it read none for c.
ReadAt(c) == IF c \in DOMAIN last.clock THEN last.clock[c] ELSE now

\* C5: no delivery operation (keyed, legacy, /test) sends to a connection
\* while the time it reads for it is before its ignoreUntil.
C5_NoDeliveryInsideWindow ==
    last.op \in DeliveryOps =>
        \A c \in last.sent : ~(ReadAt(c) < clientObj[c].ignoreUntil)

\* The alert passes the connection's symbol filter: the filter is unset or
\* empty, the alert has no symbol, or the two are the same string.
PassesFilter(clientSymbol, alertSymbol) ==
    \/ clientSymbol \in {Null, ""}
    \/ alertSymbol \in {Null, ""}
    \/ clientSymbol = alertSymbol

\* C6: once the time has reached a connection's ignoreUntil, a keyed alert
\* to its bound key, or a legacy alert passing its symbol filter, is sent to
\* it while its transport is open, and every connection sent to is counted.
C6_DeliveredOnceWindowElapsed ==
    /\ last.op = "keyed" =>
        \A c \in clients :
            ( /\ clientObj[c].webhookId = last.key
              /\ ReadAt(c) >= clientObj[c].ignoreUntil
              /\ clientObj[c].readyState = OPEN )
            => c \in last.sent /\ last.delivered = Cardinality(last.sent)
    /\ last.op = "legacy" =>
        \A c \in clients :
            ( /\ clientObj[c].isLegacy
              /\ ReadAt(c) >= clientObj[c].ignoreUntil
              /\ clientObj[c].readyState = OPEN
              /\ PassesFilter(clientObj[c].symbol, last.symbol) )
            => c \in last.sent /\ last.delivered = Cardinality(last.sent)

\* C6 witness: a keyed alert was sent to a bound connection at the very
\* instant its window ended.
C6_Witness ==
    /\ last.op = "keyed"
    /\ \E c \in last.sent :
        /\ c \in clients
        /\ clientObj[c].webhookId = last.key
        /\ ReadAt(c) = clientObj[c].ignoreUntil
    /\ last.delivered >= 1

\* C7: ignoreUntil never decreases: connect sets it to now + 5000, and a
\* clear_session leaves a deadline at or after the previous one.
C7_IgnoreUntilNeverDecreases ==
    [][ /\ \A c \in DOMAIN clientObj :
            clientObj'[c].ignoreUntil >= clientObj[c].ignoreUntil
        /\ \A c \in (DOMAIN clientObj') \ (DOMAIN clientObj) :
            clientObj'[c].ignoreUntil = now' + 5000 ]_vars

\* C7 witness: a clear_session, sent after the clock has advanced, has moved
\* a deadline beyond every deadline an earlier message could have set.
C7_Witness ==
    /\ last.op = "clear_session"
    /\ last.reply = "session_cleared"
    /\ now > 0
    /\ clientObj[last.client].ignoreUntil = now + 10000

\* C8: on the legacy path a legacy-bound connection outside its window with
\* an open transport is skipped exactly when it has a non-empty filter and
\* the alert carries a symbol that is another string.
C8_LegacySymbolFilter ==
    last.op = "legacy" =>
        \A c \in clients :
            ( /\ clientObj[c].isLegacy
              /\ ~(ReadAt(c) < clientObj[c].ignoreUntil)
              /\ clientObj[c].readyState = OPEN )
            => ( c \notin last.sent
                   <=> ( /\ clientObj[c].symbol \notin {Null, ""}
                         /\ last.symbol \notin {Null, ""}
                         /\ clientObj[c].symbol # last.symbol ) )

\* C8 witness: a legacy alert whose symbol differs from the filter only in
\* case was not sent to an open legacy connection outside its window.
C8_Witness ==
    /\ last.op = "legacy"
    /\ last.symbol = "btcusd"
    /\ \E c \in clients :
        /\ clientObj[c].isLegacy
        /\ clientObj[c].symbol = "BTCUSD"
        /\ ~(ReadAt(c) < clientObj[c].ignoreUntil)
        /\ clientObj[c].readyState = OPEN
        /\ c \notin last.sent

\* C9: the keyed path never consults the symbol filter: a connection bound
\* to K, outside its window and open, receives every alert addressed to K,
\* and whether a target is sent to depends on its window and socket only.
C9_KeyedIgnoresSymbol ==
    last.op = "keyed" =>
        /\ \A c \in clients :
            ( /\ clientObj[c].webhookId = last.key
              /\ ~(ReadAt(c) < clientObj[c].ignoreUntil)
              /\ clientObj[c].readyState = OPEN )
            => c \in last.sent
        /\ last.sent = {c \in last.targets :
                            /\ ~(ReadAt(c) < clientObj[c].ignoreUntil)
                            /\ clientObj[c].readyState = OPEN}

\* C9 witness: a keyed alert carrying another symbol than the connection's
\* filter was sent to it.
C9_Witness ==
    /\ last.op = "keyed"
    /\ last.symbol = "btcusd"
    /\ \E c \in last.sent :
        /\ clientObj[c].webhookId = last.key
        /\ clientObj[c].symbol = "BTCUSD"

\* C10: a keyed alert for a key no connection is bound to returns a delivery
\* count of 0 as a success and leaves the registry unchanged.
C10_UnboundKeyDeliversNothing ==
    [][ (last'.op = "keyed" /\ BoundTo(last'.key) = {})
        => /\ last'.delivered = 0
           /\ last'.reply \in {"success:no clients connected", "success:delivered"}
           /\ UNCHANGED registry ]_vars
\* The scenario of C11: two live connections, a registered to "abc123" only
\* and b registered as legacy only, both open and outside their windows.
KeyedAndLegacyPair(a, b) ==
    /\ a # b
    /\ clients = {a, b}
    /\ clientObj[a].webhookId = "abc123" /\ ~clientObj[a].isLegacy
    /\ clientObj[b].isLegacy /\ clientObj[b].webhookId = Null
    /\ webhookClients = [k \in {"abc123"} |-> {a}]
    /\ legacyClients = {b}
    /\ \A c \in {a, b} : clientObj[c].readyState = OPEN /\ ReadAt(c) >= clientObj[c].ignoreUntil

\* C11: with A registered to "abc123" and B registered as legacy, a keyed
\* alert for "abc123" is delivered to A only with count 1 and a legacy alert
\* to B only with count 1 (the deliveries leave the registry as it is, so
\* the same holds in either order).
C11_KeyedToAOnlyLegacyToBOnly ==
    \A a \in Created, b \in Created :
        KeyedAndLegacyPair(a, b) =>
            /\ (last.op = "keyed" /\ last.key = "abc123")
                 => last.sent = {a} /\ last.delivered = 1
            /\ last.op = "legacy" => last.sent = {b} /\ last.delivered = 1

\* C11 witness: in the scenario, the keyed alert has been delivered to A.
C11_Witness ==
    \E a \in Created, b \in Created :
        /\ KeyedAndLegacyPair(a, b)
        /\ last.op = "keyed" /\ last.key = "abc123"
        /\ last.sent = {a} /\ last.delivered = 1

\* C12: a keyed or legacy delivery sends only to connections that are in
\* the clients map at that moment and counts exactly those it sent to; a
\* connection its close or error handler retracted before is never sent to.
C12_NoSendToRetracted ==
    last.op \in {"keyed", "legacy"} =>
        /\ last.sent \subseteq clients
        /\ last.sent \subseteq last.targets
        /\ last.delivered = Cardinality(last.sent)

\* C12 witness: a keyed delivery iterated over a connection that had been
\* retracted before (an index still held it) and did not send to it, while
\* it sent to a live one.
C12_Witness ==
    /\ last.op = "keyed"
    /\ \E c \in last.targets : c \notin clients /\ c \notin last.sent
    /\ \E d \in last.sent : d \in clients

\* C13: webhookClients never holds an empty bucket: every key present in the
\* map has at least one connection in its set, whatever connect, register,
\* close and error events happened.
C13_NoEmptyBucket ==
    \A k \in DOMAIN webhookClients : webhookClients[k] # {}

\* The open connections of a delivery's batch that are outside their ignore
\* window and pass the route's symbol filter.
Eligible(c) ==
    /\ IsOpen(c)
    /\ ~InIgnoreWindow(c, ReadAt(c))
    /\ last.op = "legacy" => PassesFilter(clientObj[c].symbol, last.symbol)

\* C14: a send that fails during a keyed or legacy broadcast is isolated to
\* its connection: the handler still answers with its delivery count and no
\* error, the failing connection is not counted, and every other eligible
\* connection of the batch is still sent to.
C14_SendFailureIsolated ==
    (last.op \in {"keyed", "legacy"} /\ last.client # 0) =>
        /\ last.reply # SendThrew
        /\ last.client \notin last.sent
        /\ last.delivered = Cardinality(last.sent)
        /\ \A c \in last.targets \ {last.client} : Eligible(c) => c \in last.sent

\* C15: a keyed, legacy or /test delivery leaves clients, webhookClients,
\* legacyClients and the fields of every connection unchanged, whether its
\* sends succeed or one of them throws; and a connection leaves the clients
\* map only in its own close or error handler.
C15_DeliveryLeavesRegistry ==
    [][ /\ last'.op \in DeliveryOps =>
              UNCHANGED <<clients, webhookClients, legacyClients, clientObj>>
        /\ \A c \in clients \ clients' :
              last'.op \in {"close", "error"} /\ last'.client = c ]_vars

\* C15 witness: a keyed delivery whose send threw, with the failing
\* connection and a target whose socket is no longer open both still in
\* the clients map and in the bucket.
C15_Witness ==
    /\ last.op = "keyed" /\ last.reply = SendThrew
    /\ last.client \in clients /\ last.client \in TargetClients(last.key)
    /\ \E c \in TargetClients(last.key) \cap clients : ~IsOpen(c)

\* The full key can be read from the value shown: the key is a prefix of it.
KeyReadable(shown, key) ==
    \E n \in 1..Len(shown) : SubSeq(shown, 1, n) = key

\* C16: the /status listing never lets the full routing key of a connection
\* be read: for every listed connection with a webhookId, of any length, the
\* webhookId value shown does not contain the whole key.
C16_StatusHidesKey ==
    last.op = "status" =>
        \A c \in DOMAIN last.listing.clients :
            Truthy(clientObj[c].webhookId) =>
                ~KeyReadable(last.listing.clients[c].webhookId, clientObj[c].webhookId)

\* C17: connection ids are unique and strictly increasing in connect order:
\* clientIdCounter never decreases, the id a connect assigns is greater than
\* every id assigned before it, also when earlier connections have closed,
\* and no two client objects ever share an id.
C17_IdsUniqueIncreasing ==
    [][ /\ clientIdCounter' >= clientIdCounter
        /\ last'.op = "connect" =>
              /\ last'.client \in clients'
              /\ \A i \in DOMAIN clientObj : clientObj[i].id < last'.client
        /\ \A i \in DOMAIN clientObj', j \in DOMAIN clientObj' :
              i # j => clientObj'[i].id # clientObj'[j].id ]_vars

\* C17 witness: the second connection was accepted after the first one had
\* closed and left the clients map, and got the id 2.
C17_Witness ==
    /\ last.op = "connect" /\ last.client = 2
    /\ clients = {2}
    /\ clientObj[1].readyState = CLOSED

\* C18: a message that cannot be parsed, or whose type is none of register,
\* subscribe, ping and clear_session, gets no reply, changes neither the
\* registry nor any field of any connection, and leaves its connection in
\* the clients map and its socket open.
C18_OtherMessageIgnored ==
    [][ last'.op = "other" =>
          /\ last'.reply = NoReply
          /\ UNCHANGED <<clients, webhookClients, legacyClients, clientObj, clientIdCounter>>
          /\ last'.client \in clients => last'.client \in clients'
          /\ clientObj'[last'.client].readyState = OPEN ]_vars

\* C18 witness: such a message was handled for a connection that is bound
\* to a key and subscribed to a symbol, and it is still so.
C18_Witness ==
    /\ last.op = "other" /\ last.reply = NoReply
    /\ last.client \in clients
    /\ Truthy(clientObj[last.client].webhookId)
    /\ last.client \in TargetClients(clientObj[last.client].webhookId)
    /\ Truthy(clientObj[last.client].symbol)
    /\ clientObj[last.client].readyState = OPEN

\* The handlers that run for one connection: its connect, its messages and
\* its socket events.
ConnectionOps ==
    {"connect", "register", "subscribe", "ping", "clear_session", "other",
     "closing", "close", "error"}

\* Connection d is in the bucket of key k of map.
InBucket(map, k, d) == k \in DOMAIN map /\ d \in map[k]

\* C19: a message or a lifecycle event of connection c changes only c's own
\* fields and c's own membership in clients, webhookClients and
\* legacyClients: every other connection keeps its fields and is in exactly
\* the same indexes before and after.
C19_OnlyOwnStateChanges ==
    [][ last'.op \in ConnectionOps =>
          \A d \in Created \ {last'.client} :
              /\ clientObj'[d] = clientObj[d]
              /\ d \in clients' <=> d \in clients
              /\ d \in legacyClients' <=> d \in legacyClients
              /\ \A k \in DOMAIN webhookClients \cup DOMAIN webhookClients' :
                    InBucket(webhookClients', k, d) <=> InBucket(webhookClients, k, d) ]_vars

\* C19 witness: a connection closed and left the bucket it shared with
\* another connection, which is still in that bucket and in clients.
C19_Witness ==
    /\ last.op = "close"
    /\ \E d \in clients \ {last.client} :
          /\ Truthy(clientObj[d].webhookId)
          /\ clientObj[d].webhookId = clientObj[last.client].webhookId
          /\ d \in TargetClients(clientObj[d].webhookId)
          /\ last.client \notin TargetClients(clientObj[d].webhookId)

\* C20: termination is idempotent: a close or error event of a connection
\* that has already been removed from clients leaves clients,
\* webhookClients and legacyClients as they are and answers nothing.
C20_TerminationIdempotent ==
    [][ (last'.op \in {"close", "error"} /\ last'.client \notin clients) =>
          /\ UNCHANGED registry
          /\ last'.reply = NoReply ]_vars

\* C20 witness: the close event of a connection whose error event had
\* already removed it: the bucket its error handler left empty is still
\* there, which a close handler that ran its removal again would have pruned.
C20_Witness ==
    /\ last.op = "close"
    /\ last.client \notin clients
    /\ clientObj[last.client].readyState = CLOSED
    /\ \E k \in DOMAIN webhookClients :
          webhookClients[k] = {} /\ clientObj[last.client].webhookId = k

\* Connection c has sent no register message that bound it: its fields are
\* those of the connection handler.
Unregistered(c) == clientObj[c].webhookId = Null /\ ~clientObj[c].isLegacy

\* C21: a connect adds exactly one entry to clients and does no indexing:
\* webhookClients and legacyClients are unchanged and the new connection is
\* in neither; and as long as a connection has not registered it is in no
\* bucket, not in legacyClients, and no keyed or legacy alert is sent to it.
C21_ConnectDoesNotIndex ==
    [][ /\ last'.op = "connect" =>
              /\ last'.client \notin clients
              /\ clients' = clients \cup {last'.client}
              /\ UNCHANGED <<webhookClients, legacyClients>>
              /\ clientObj'[last'.client].webhookId = Null
              /\ ~clientObj'[last'.client].isLegacy
        /\ \A c \in 1..clientIdCounter' :
              (clientObj'[c].webhookId = Null /\ ~clientObj'[c].isLegacy) =>
                  /\ \A k \in DOMAIN webhookClients' : c \notin webhookClients'[k]
                  /\ c \notin legacyClients'
                  /\ last'.op \in {"keyed", "legacy"} => c \notin last'.sent ]_vars

\* C21 witness: a legacy alert was delivered to a registered connection
\* while another connection, open, past its ignore window and never
\* registered, got nothing.
C21_Witness ==
    /\ last.op = "legacy" /\ last.delivered = 1
    /\ \E c \in clients :
          /\ Unregistered(c)
          /\ IsOpen(c) /\ ~InIgnoreWindow(c, ReadAt(c))
          /\ c \notin last.sent

\* The index buckets that hold connection c after the step.
BucketsOfAfter(c) == {k \in DOMAIN webhookClients' : c \in webhookClients'[k]}

\* C22: a register message of a connection in clients that carries a routing
\* key binds the connection to that key and is answered 'registered' with
\* mode 'user-specific'; one that carries legacy: true and no key binds it to
\* the legacy index and is answered 'registered' with mode 'legacy'; and the
\* mode answered is the index the connection is in afterwards: the bucket of
\* the key and not legacyClients, or legacyClients and no bucket.
C22_RegisterAckAgreesWithIndex ==
    [][ \A c \in Ids, k \in RegistryKeys \cup {Null, ""}, l \in BOOLEAN :
          (Register(c, k, l) /\ c \in clients) =>
              /\ Truthy(k) =>
                    /\ last'.reply = "registered:user-specific"
                    /\ clientObj'[c].webhookId = k
                    /\ BucketsOfAfter(c) = {k}
                    /\ c \notin legacyClients'
              /\ (~Truthy(k) /\ l) =>
                    /\ last'.reply = "registered:legacy"
                    /\ clientObj'[c].isLegacy
                    /\ c \in legacyClients'
                    /\ BucketsOfAfter(c) = {} ]_vars

\* C23: the delivery count a keyed or legacy alert returns is the number of
\* connections it issued a send to, each of them in clients with its socket
\* open during the call, so the count never exceeds the number of
\* connections in clients.
C23_CountIsSendsToLive ==
    (last.op \in {"keyed", "legacy"} /\ last.reply # SendThrew) =>
        /\ last.delivered = Cardinality(last.sent)
        /\ \A c \in last.sent : c \in clients /\ IsOpen(c)
        /\ last.delivered <= Cardinality(clients)

\* C23 witness: a keyed alert returned the count 1 for a bucket of two
\* connections, one of them with a socket that is no longer open.
C23_Witness ==
    /\ last.op = "keyed" /\ last.reply = "success:delivered"
    /\ Cardinality(last.targets) = 2
    /\ last.delivered = 1
    /\ \E c \in last.targets : ~IsOpen(c) /\ ~InIgnoreWindow(c, ReadAt(c))

\* C24: the sizes /status reports agree with the connections' own fields:
\* legacyClients is the number of connections in clients with isLegacy true,
\* and webhookIds is the number of distinct non-null webhookId values of the
\* connections in clients.
C24_StatusCountsAgree ==
    last.op = "status" =>
        /\ last.listing.legacyClients =
              Cardinality({c \in clients : clientObj[c].isLegacy})
        /\ last.listing.webhookIds =
              Cardinality({clientObj[c].webhookId : c \in clients} \ {Null})

\* C25: one alert submission sends at most one copy to any connection,
\* whatever the connection registered before: the number of sends of the
\* call (delivered) is the number of distinct connections sent to, and it is
\* at most the number of distinct connections of the index it went through,
\* also for a connection that registered several times and is in several indexes.
C25_AtMostOneCopy ==
    last.op \in {"keyed", "legacy"} =>
        /\ Cardinality(last.sent) = last.delivered
        /\ last.delivered <= Cardinality(last.targets)
        /\ last.op = "keyed" => last.targets = TargetClients(last.key)
        /\ last.op = "legacy" => last.targets = legacyClients

\* C25 witness: a keyed alert was sent, as one copy, to a connection that
\* registered as legacy and with the key, and is in both indexes.
C25_Witness ==
    /\ last.op = "keyed" /\ last.delivered = 1
    /\ \E c \in last.sent :
          /\ c \in legacyClients
          /\ c \in TargetClients(last.key)
          /\ clientObj[c].webhookId = last.key
====
